---- MODULE Spec2Model ----
(***************************************************************************)
(* A model of the generic Postgres repository (repository_pg.go) and of   *)
(* the transaction manager (repository.go).                               *)
(*                                                                         *)
(* Three specifications share the module:                                  *)
(*   SpecFrag  the query fragment builder (selectFields, insertFields,     *)
(*             insertParams, updateSetFields) over bounded entity types;   *)
(*   SpecBulk  InsertBulkBase, one step per driver-visible stage;          *)
(*   Spec      Manager.RunInTransaction and the CRUD operations of the     *)
(*             repository over a small table.                              *)
(***************************************************************************)
EXTENDS Integers, Sequences, FiniteSets, TLC

VARIABLES
    \* ---- PostgresRepository fields (repository_pg.go:23-31)
    elemType,        \* sequence of struct fields, each [db |-> tag, int64 |-> BOOLEAN]
    selF,            \* r.selectFields, as the list of entries joined by ", "
    insF,            \* r.insertFields, idem
    insP,            \* r.insertParams, idem
    updF,            \* r.updateSetFields, as the list of entries joined by ","
    built,           \* NewPostgresRepository has run
    \* ---- the database behind the driver
    table,           \* committed rows, by id (the serial has handed out 1..Len(table))
    shadow,          \* the table as it would be without the running unit of work
    \* ---- the transaction of Manager.RunInTransaction
    txPc,            \* "idle", "running", "returned", "panicked"
    txWrites,        \* the transaction's uncommitted row versions, by id
    txLog,           \* what happened to the transaction handle, in order
    ret,             \* what RunInTransaction returned
    \* ---- the last repository call and what it sent to the driver
    call,
    \* ---- InsertBulkBase in progress
    bulk

vars == <<elemType, selF, insF, insP, updF, built, table, shadow,
          txPc, txWrites, txLog, ret, call, bulk>>

repoVars == <<elemType, selF, insF, insP, updF, built>>
dbVars   == <<table, shadow>>
txVars   == <<txPc, txWrites, txLog, ret>>

(***************************************************************************)
(* Bounds of the model.                                                    *)
(***************************************************************************)
MaxFields == 4      \* fields of an entity struct, in SpecFrag
MaxRows   == 1      \* ids the serial hands out, in Spec
MaxElems  == 250    \* elements of one bulk insert, in SpecBulk

\* repository_pg.go:18
rowPerInsert == 100

(***************************************************************************)
(* Tag Metadata Resolver: the predicates on a field's `db` tag.            *)
(***************************************************************************)
emptyTag(dbTag) == dbTag \in {"", "-"}

createdTag(dbTag) == dbTag = "created_at"

updatedTag(dbTag) == dbTag = "updated_at"

readOnlyTag(dbTag) ==
    dbTag \in {"is_deleted", "deleted_at", "id", "created_at", "updated_at",
               "topup_method_id", "bs_topup_banktransfer_id",
               "bs_topup_virtualaccount_id", "bs_topup_provider_id", "topup_id",
               "topup_recon_matched_id", "topup_recon_unmatched_id",
               "statement_id", "transfer_recon_unmatched_id",
               "transfer_recon_matched_id"}

\* field.Tag.Get("db") of every field, in declaration order
TagsOf(t) == [i \in 1..Len(t) |-> t[i].db]

\* fmt.Sprintf(`"%s"`, dbTag)
Quote(dbTag) == "\"" \o dbTag \o "\""

\* fmt.Sprintf(":%s", dbTag)
Param(dbTag) == ":" \o dbTag

\* fmt.Sprintf(`"%s" = :%s`, dbTag, dbTag)
SetClause(dbTag) == "\"" \o dbTag \o "\" = :" \o dbTag

Selectable(dbTag) == dbTag # "" /\ dbTag # "-"

Writable(dbTag) == ~readOnlyTag(dbTag) /\ ~emptyTag(dbTag)

(***************************************************************************)
(* Query Fragment Builder.  A fragment is kept as the list dbFields that   *)
(* the code joins with ", ": entry i of the list is entry i of the string. *)
(***************************************************************************)
selectFields(t) ==
    LET s == SelectSeq(TagsOf(t), Selectable)
    IN  [i \in 1..Len(s) |-> Quote(s[i])]

MutInsertFieldsStampsFirst(t) ==
    LET tags      == TagsOf(t)
        s         == SelectSeq(tags, Writable)
        createTag == \E i \in 1..Len(tags) : createdTag(tags[i])
        updateTag == \E i \in 1..Len(tags) : updatedTag(tags[i])
    IN  (IF updateTag THEN <<"\"updated_at\"">> ELSE <<>>)
        \o (IF createTag THEN <<"\"created_at\"">> ELSE <<>>)
        \o [i \in 1..Len(s) |-> Quote(s[i])]

insertFields(t) ==
    LET tags      == TagsOf(t)
        s         == SelectSeq(tags, Writable)
        createTag == \E i \in 1..Len(tags) : createdTag(tags[i])
        updateTag == \E i \in 1..Len(tags) : updatedTag(tags[i])
    IN  [i \in 1..Len(s) |-> Quote(s[i])]
        \o (IF createTag THEN <<"\"created_at\"">> ELSE <<>>)
        \o (IF updateTag THEN <<"\"updated_at\"">> ELSE <<>>)

MutInsertParamsUpdatedFirst(t) ==
    LET tags      == TagsOf(t)
        s         == SelectSeq(tags, Writable)
        createTag == \E i \in 1..Len(tags) : createdTag(tags[i])
        updateTag == \E i \in 1..Len(tags) : updatedTag(tags[i])
    IN  [i \in 1..Len(s) |-> Param(s[i])]
        \o (IF updateTag THEN <<":updated_at">> ELSE <<>>)
        \o (IF createTag THEN <<":created_at">> ELSE <<>>)

insertParams(t) ==
    LET tags      == TagsOf(t)
        s         == SelectSeq(tags, Writable)
        createTag == \E i \in 1..Len(tags) : createdTag(tags[i])
        updateTag == \E i \in 1..Len(tags) : updatedTag(tags[i])
    IN  [i \in 1..Len(s) |-> Param(s[i])]
        \o (IF createTag THEN <<":created_at">> ELSE <<>>)
        \o (IF updateTag THEN <<":updated_at">> ELSE <<>>)

updateSetFields(t) ==
    LET s == SelectSeq(TagsOf(t), Writable)
    IN  <<"\"updated_at\" = :updated_at">> \o [i \in 1..Len(s) |-> SetClause(s[i])]

(***************************************************************************)
(* Entity types of the fragment specification: every struct of at most     *)
(* MaxFields fields tagged from FragTags, no column declared twice.        *)
(***************************************************************************)
FragTags == {"", "-", "id", "name", "amount", "created_at", "updated_at",
             "deleted_at", "topup_id"}

Field(tag) == [db |-> tag, int64 |-> FALSE]

NoDuplicateColumn(t) ==
    \A i, j \in 1..Len(t) :
        (i # j /\ Selectable(t[i].db)) => t[i].db # t[j].db

FragTypes ==
    UNION {{t \in [1..n -> {Field(g) : g \in FragTags}] : NoDuplicateColumn(t)}
           : n \in 0..MaxFields}

\* the entity { id, name, created_at, updated_at } of the specification's scenario
ExampleType == <<Field("id"), Field("name"), Field("created_at"), Field("updated_at")>>

(***************************************************************************)
(* Idle values of the parts a specification does not exercise.             *)
(***************************************************************************)
\* a NULL timestamp
NULL == "NULL"
\* an id whose row is gone (or was never committed); a row the transaction left alone
NoRow == [absent |-> TRUE]
Untouched == [untouched |-> TRUE]

\* a call that sent nothing to the driver
NoStmt == [on |-> "none", sql |-> "none", lock |-> "", executed |-> FALSE]

NoCall == [op |-> "none", inTx |-> FALSE, stmt |-> NoStmt, err |-> "nil"]

NoBulk == [pc |-> "idle"]

RepoUnbuilt ==
    /\ selF = <<>> /\ insF = <<>> /\ insP = <<>> /\ updF = <<>>
    /\ built = FALSE

RepoBuilt(t) ==
    /\ elemType = t
    /\ selF = selectFields(t)
    /\ insF = insertFields(t)
    /\ insP = insertParams(t)
    /\ updF = updateSetFields(t)
    /\ built = TRUE

DbEmpty ==
    /\ table = <<>>
    /\ shadow = <<>>

TxIdle ==
    /\ txPc = "idle"
    /\ txWrites = <<>>
    /\ txLog = <<>>
    /\ ret = "none"

(***************************************************************************)
(* SpecFrag: NewPostgresRepository over every bounded entity type.         *)
(***************************************************************************)
NewPostgresRepository ==
    /\ ~built
    /\ selF' = selectFields(elemType)
    /\ insF' = insertFields(elemType)
    /\ insP' = insertParams(elemType)
    /\ updF' = updateSetFields(elemType)
    /\ built' = TRUE
    /\ UNCHANGED <<elemType, dbVars, txVars, call, bulk>>

InitFrag ==
    /\ elemType \in FragTypes
    /\ RepoUnbuilt
    /\ DbEmpty /\ TxIdle
    /\ call = NoCall
    /\ bulk = NoBulk

NextFrag == NewPostgresRepository

SpecFrag == InitFrag /\ [][NextFrag]_vars

(***************************************************************************)
(* Properties of the fragment builder.                                     *)
(***************************************************************************)
RECURSIVE IsSubseq(_, _)
\* a is b with some entries left out: the entries of a occur in b in a's order
IsSubseq(a, b) ==
    IF a = <<>> THEN TRUE
    ELSE IF b = <<>> THEN FALSE
    ELSE IF Head(a) = Head(b) THEN IsSubseq(Tail(a), Tail(b))
    ELSE IsSubseq(a, Tail(b))

\* the quoted column of every field, in declaration order
Declared == [i \in 1..Len(elemType) |-> Quote(elemType[i].db)]

InFragment(f, c) == \E i \in 1..Len(f) : f[i] = c

\* the number of writable fields of the entity type
NumWritable == Cardinality({i \in 1..Len(elemType) : Writable(elemType[i].db)})

StampColumns == {"\"created_at\"", "\"updated_at\""}

\* C9 (as claimed): the columns of every fragment are in field declaration
\* order, and the columns that selectFields and insertFields share are in the
\* same relative order in both, created_at and updated_at included.
C9_DeclarationOrderEverywhere ==
    built =>
        /\ IsSubseq(selF, Declared)
        /\ IsSubseq(insF, Declared)
        /\ IsSubseq(SelectSeq(insF, LAMBDA c : InFragment(selF, c)), selF)

\* C9 (amended): selectFields is in field declaration order; insertFields is
\* the writable columns in field declaration order, followed by created_at and
\* then updated_at when the struct declares them; any two writable columns are
\* in the same relative order in both fragments.
C9_WritableOrderStampsLast ==
    built =>
        LET ordinary == SubSeq(insF, 1, NumWritable)
            stamps   == SubSeq(insF, NumWritable + 1, Len(insF))
        IN  /\ IsSubseq(selF, Declared)
            /\ Len(insF) >= NumWritable
            /\ IsSubseq(ordinary, Declared)
            /\ IsSubseq(ordinary, selF)
            /\ \A i \in 1..Len(ordinary) : ordinary[i] \notin StampColumns
            /\ \A i \in 1..Len(stamps) : stamps[i] \in StampColumns
            /\ \A c \in StampColumns : InFragment(stamps, c) <=> InFragment(Declared, c)
            /\ Len(stamps) = 2 => stamps = <<"\"created_at\"", "\"updated_at\"">>

\* C9 witness: a built repository whose struct declares updated_at before
\* created_at and both before a writable column.
C9_Witness ==
    /\ built
    /\ elemType = <<Field("updated_at"), Field("created_at"), Field("name")>>
    /\ selF = <<"\"updated_at\"", "\"created_at\"", "\"name\"">>
    /\ insF = <<"\"name\"", "\"created_at\"", "\"updated_at\"">>

\* C10: insertFields and insertParams have the same number of entries, entry i
\* of insertParams is ":c" for the column "c" (quoted) at entry i of
\* insertFields, and selectFields has at least as many entries as insertFields.
C10_ParamsMatchFields ==
    built =>
        /\ Len(insF) = Len(insP)
        /\ \A i \in 1..Len(insF) :
               \E c \in FragTags : insF[i] = Quote(c) /\ insP[i] = Param(c)
        /\ Len(selF) >= Len(insF)

\* C10 witness: the built repository of the entity { id, name, created_at,
\* updated_at }: three insert columns with their placeholders, four select columns.
C10_Witness ==
    /\ built
    /\ elemType = ExampleType
    /\ Len(selF) = 4
    /\ insF = <<"\"name\"", "\"created_at\"", "\"updated_at\"">>
    /\ insP = <<":name", ":created_at", ":updated_at">>

(***************************************************************************)
(* The Transaction Router and the database behind the two executors.       *)
(*                                                                         *)
(* A row is [val, deleted_at]; ids come from the serial of column "id",    *)
(* which no rollback takes back, so table, shadow and txWrites always have *)
(* one entry per id handed out.  The pooled executor reads and writes      *)
(* table; the transaction handle reads table overlaid with txWrites and    *)
(* writes txWrites.                                                        *)
(***************************************************************************)
Ctxs == {"background", "tctx"}

Vals == {"a", "b"}

\* the instants a caller binds to a timestamp
Times == {"t1"}

\* the rows a caller's predicate selects: "id" = :id, or every row
WherePreds == {{i} : i \in 1..MaxRows} \cup {1..MaxRows}

\* ctx.Value(TXCONTEXTKEY).(Queryer)
MutTxFromContextNever(ctx) == [q |-> "none", ok |-> FALSE]

txFromContext(ctx) ==
    IF ctx = "tctx" THEN [q |-> "tx", ok |-> TRUE] ELSE [q |-> "none", ok |-> FALSE]

\* db := r.db; tx, ok := txFromContext(ctx); if ok { db = tx }
Executor(ctx) ==
    LET t == txFromContext(ctx) IN IF t.ok THEN t.q ELSE "pool"

Pad(rows, n, filler) ==
    [id \in 1..n |-> IF id <= Len(rows) THEN rows[id] ELSE filler]

Overlay(base, writes) ==
    [id \in 1..Len(base) |-> IF writes[id] = Untouched THEN base[id] ELSE writes[id]]

\* what a statement run on executor db sees
View(db) == IF db = "tx" THEN Overlay(table, txWrites) ELSE table

Present(rows) == {id \in 1..Len(rows) : rows[id] # NoRow}

Matched(rows, where) == Present(rows) \cap where

\* INSERT INTO t (...) VALUES (...): the serial gives the next id
Inserted(rows, v) == Append(rows, [val |-> v, deleted_at |-> NULL])

\* UPDATE t A SET <fields> WHERE <where>
Updated(rows, where, v) ==
    [id \in 1..Len(rows) |->
        IF id \in Matched(rows, where) THEN [rows[id] EXCEPT !.val = v] ELSE rows[id]]

\* UPDATE t SET "deleted_at" = :deleted_at WHERE <where>
SoftDeleted(rows, where, ts) ==
    [id \in 1..Len(rows) |->
        IF id \in Matched(rows, where) THEN [rows[id] EXCEPT !.deleted_at = ts]
        ELSE rows[id]]

\* DELETE FROM t WHERE <where>
HardDeleted(rows, where) ==
    [id \in 1..Len(rows) |-> IF id \in where THEN NoRow ELSE rows[id]]

\* A successful write statement of a call made with ctx, run on the executor
\* the call chose: after is what it makes of the rows that executor sees.  The
\* shadow follows the calls made without the transaction: ghost is what the
\* statement makes of the shadow.
Write(ctx, after, ghost) ==
    LET db == Executor(ctx)
        n  == Len(after)
    IN  /\ IF db = "tx"
           THEN /\ txWrites' = [id \in 1..n |->
                                   IF id <= Len(table) /\ after[id] = View(db)[id]
                                   THEN txWrites[id] ELSE after[id]]
                /\ table' = Pad(table, n, NoRow)
           ELSE /\ table' = after
                /\ txWrites' = Pad(txWrites, n, Untouched)
        /\ shadow' = IF ctx = "background" THEN ghost ELSE Pad(shadow, n, NoRow)
        /\ txLog' = IF ctx = "tctx" /\ \A k \in 1..Len(txLog) : txLog[k] # "write"
                    THEN Append(txLog, "write") ELSE txLog

NoWrite == UNCHANGED <<table, shadow, txWrites, txLog>>

\* a context that carries the transaction handle exists while f runs
CanCall(ctx) ==
    /\ bulk.pc = "idle"
    /\ ctx = "tctx" => txPc = "running"

Fails == {"none", "prepare", "exec"}

Stmt(db, sql, lock, fail) ==
    [on |-> db, sql |-> sql, lock |-> lock, executed |-> fail = "none"]

FailErr(fail) ==
    IF fail = "prepare" THEN "ErrPrepare" ELSE IF fail = "exec" THEN "ErrExec" ELSE "nil"

Called(op, ctx, stmt, err) ==
    call' = [op |-> op, inTx |-> ctx = "tctx", stmt |-> stmt, err |-> err]

(***************************************************************************)
(* Repository Facade: the read operations.                                 *)
(***************************************************************************)
\* Single: SELECT <selectFields> FROM t WHERE <where> <forUpdate> LIMIT 1
SingleStmt(ctx, fail) ==
    LET t == txFromContext(ctx)
    IN  Stmt(IF t.ok THEN t.q ELSE "pool", "SELECT", IF t.ok THEN " FOR UPDATE" ELSE "", fail)

SingleErr(ctx, where, fail) ==
    IF fail # "none" THEN FailErr(fail)
    ELSE IF Matched(View(Executor(ctx)), where) = {} THEN "ErrNoRows" ELSE "nil"

Single(ctx, where, fail) ==
    /\ CanCall(ctx)
    /\ Called("Single", ctx, SingleStmt(ctx, fail), SingleErr(ctx, where, fail))
    /\ NoWrite
    /\ UNCHANGED <<repoVars, txPc, ret, bulk>>

\* FindByID: Single with the predicate "id" = :id
FindByID(ctx, id, fail) ==
    /\ CanCall(ctx)
    /\ Called("FindByID", ctx, SingleStmt(ctx, fail), SingleErr(ctx, {id}, fail))
    /\ NoWrite
    /\ UNCHANGED <<repoVars, txPc, ret, bulk>>

\* Where: SELECT <selectFields> FROM t WHERE <where><forUpdate>
WhereStmt(ctx, fail) ==
    LET t == txFromContext(ctx)
    IN  Stmt(IF t.ok THEN t.q ELSE "pool", "SELECT", IF t.ok THEN " FOR UPDATE" ELSE "", fail)

Where(ctx, fail) ==
    /\ CanCall(ctx)
    /\ Called("Where", ctx, WhereStmt(ctx, fail), FailErr(fail))
    /\ NoWrite
    /\ UNCHANGED <<repoVars, txPc, ret, bulk>>

\* SelectAll: SELECT <selectFields> FROM t ORDER BY .. LIMIT .. <forUpdate>
SelectAllStmt(ctx, fail) ==
    LET t == txFromContext(ctx)
    IN  Stmt(IF t.ok THEN t.q ELSE "pool", "SELECT", IF t.ok THEN " FOR UPDATE" ELSE "", fail)

SelectAll(ctx, fail) ==
    /\ CanCall(ctx)
    /\ Called("SelectAll", ctx, SelectAllStmt(ctx, fail), FailErr(fail))
    /\ NoWrite
    /\ UNCHANGED <<repoVars, txPc, ret, bulk>>

\* CustomQuery: db.Queryx(stmt + forUpdate), forUpdate = "" in both branches
CustomQueryStmt(ctx, fail) ==
    LET t == txFromContext(ctx)
    IN  Stmt(IF t.ok THEN t.q ELSE "pool", "CUSTOM", IF t.ok THEN "" ELSE "",
             IF fail = "none" THEN "none" ELSE "exec")

CustomQuery(ctx, fail) ==
    /\ CanCall(ctx)
    /\ fail # "prepare"
    /\ Called("CustomQuery", ctx, CustomQueryStmt(ctx, fail), FailErr(fail))
    /\ NoWrite
    /\ UNCHANGED <<repoVars, txPc, ret, bulk>>

\* CustomAnyQuery: db.Queryx(stmt + forUpdate, pq.Array(arg))
CustomAnyQueryStmt(ctx, fail) ==
    LET t == txFromContext(ctx)
    IN  Stmt(IF t.ok THEN t.q ELSE "pool", "CUSTOM", IF t.ok THEN " FOR UPDATE" ELSE "",
             IF fail = "none" THEN "none" ELSE "exec")

CustomAnyQuery(ctx, fail) ==
    /\ CanCall(ctx)
    /\ fail # "prepare"
    /\ Called("CustomAnyQuery", ctx, CustomAnyQueryStmt(ctx, fail), FailErr(fail))
    /\ NoWrite
    /\ UNCHANGED <<repoVars, txPc, ret, bulk>>

(***************************************************************************)
(* Repository Facade: the write operations.                                *)
(***************************************************************************)
\* Insert: INSERT INTO t (<insertFields>) VALUES (<insertParams>) RETURNING ..
Insert(ctx, v, fail) ==
    /\ CanCall(ctx)
    /\ Len(table) < MaxRows
    /\ Called("Insert", ctx, Stmt(Executor(ctx), "INSERT", "", fail), FailErr(fail))
    /\ IF fail = "none"
       THEN Write(ctx, Inserted(View(Executor(ctx)), v),
                  Inserted(shadow, v))
       ELSE NoWrite
    /\ UNCHANGED <<repoVars, txPc, ret, bulk>>

\* Update: UPDATE t A SET <fields> WHERE <where>
Update(ctx, v, where, fail) ==
    /\ CanCall(ctx)
    /\ Called("Update", ctx, Stmt(Executor(ctx), "UPDATE", "", fail), FailErr(fail))
    /\ IF fail = "none"
       THEN Write(ctx, Updated(View(Executor(ctx)), where, v),
                  Updated(shadow, where, v))
       ELSE NoWrite
    /\ UNCHANGED <<repoVars, txPc, ret, bulk>>

\* the caller's arg: whether it has the name deleted_at, and the value it binds
DeleteArgs ==
    {[named |-> FALSE, deleted_at |-> NULL]}
    \cup {[named |-> TRUE, deleted_at |-> t] : t \in {NULL} \cup Times}

\* Delete: UPDATE t SET "deleted_at" = :deleted_at WHERE <where>, bound from arg
Delete(ctx, where, arg, fail) ==
    LET bound == fail = "none" /\ arg.named
        stmt  == [Stmt(Executor(ctx), "UPDATE", "", fail) EXCEPT !.executed = bound]
        err   == IF fail # "none" THEN FailErr(fail)
                 ELSE IF ~arg.named THEN "ErrBind" ELSE "nil"
    IN  /\ CanCall(ctx)
        /\ Called("Delete", ctx, stmt, err)
        /\ IF bound
           THEN Write(ctx, SoftDeleted(View(Executor(ctx)), where, arg.deleted_at),
                      SoftDeleted(shadow, where, arg.deleted_at))
           ELSE NoWrite
        /\ UNCHANGED <<repoVars, txPc, ret, bulk>>

\* PermanentDelete: DELETE FROM t WHERE <where>; arg is "nil" or a value
MutPermanentDeleteUnchecked(ctx, where, arg, fail) ==
    /\ CanCall(ctx)
    /\ Called("PermanentDelete", ctx, Stmt(Executor(ctx), "DELETE", "", fail),
              IF fail = "none" /\ arg = "nil" THEN "ErrNoWhere" ELSE FailErr(fail))
    /\ IF fail = "none"
       THEN Write(ctx, HardDeleted(View(Executor(ctx)), where),
                  HardDeleted(shadow, where))
       ELSE NoWrite
    /\ UNCHANGED <<repoVars, txPc, ret, bulk>>

PermanentDelete(ctx, where, arg, fail) ==
    /\ CanCall(ctx)
    /\ IF arg = "nil"
       THEN /\ Called("PermanentDelete", ctx, NoStmt, "ErrNoWhere")
            /\ NoWrite
       ELSE /\ Called("PermanentDelete", ctx, Stmt(Executor(ctx), "DELETE", "", fail),
                      FailErr(fail))
            /\ IF fail = "none"
               THEN Write(ctx, HardDeleted(View(Executor(ctx)), where),
                          HardDeleted(shadow, where))
               ELSE NoWrite
    /\ UNCHANGED <<repoVars, txPc, ret, bulk>>

(***************************************************************************)
(* Manager.RunInTransaction.  The unit of work f is the caller's: between  *)
(* the two actions below it makes any repository calls with tctx.          *)
(***************************************************************************)
\* the deferred function: what it does with the handle, the local err it
\* leaves, and whether it panics again
MutDeferredCommitsAfterPanic(panicked, err, commitErr) ==
    IF err # "nil"
    THEN [ops |-> <<"rollback">>, err |-> err, repanic |-> panicked]
    ELSE [ops |-> <<IF commitErr = "nil" THEN "commit" ELSE "commit_failed">>,
          err |-> commitErr, repanic |-> panicked]

Deferred(panicked, err, commitErr) ==
    IF panicked
    THEN [ops |-> <<"rollback">>, err |-> err, repanic |-> TRUE]
    ELSE IF err # "nil"
    THEN [ops |-> <<"rollback">>, err |-> err, repanic |-> FALSE]
    ELSE [ops |-> <<IF commitErr = "nil" THEN "commit" ELSE "commit_failed">>,
          err |-> commitErr, repanic |-> FALSE]

\* tx, err := m.db.Beginx(); if err != nil { return err }; ctx = newContext(ctx, tx)
RunInTransactionBegin(fail) ==
    /\ txPc # "running"
    /\ bulk.pc = "idle"
    /\ IF fail
       THEN /\ txPc' = "returned"
            /\ txLog' = <<>>
            /\ ret' = "ErrBegin"
       ELSE /\ txPc' = "running"
            /\ txLog' = <<"begin">>
            /\ ret' = "none"
    /\ UNCHANGED <<repoVars, dbVars, txWrites, call, bulk>>

\* the errors f may hand back: the one its last call with tctx gave, or its own
FErrors == {"nil", "ErrApp"} \cup (IF call.inTx THEN {call.err} ELSE {})

\* err = f(ctx); return err -- and the deferred function.  `return err` fixes
\* the (unnamed) result before the deferred function runs.
RunInTransactionEnd(panicked, e, commitErr) ==
    LET result == e
        d      == Deferred(panicked, IF panicked THEN "nil" ELSE e, commitErr)
        ended  == IF panicked THEN "f_panicked" ELSE "f_returned"
        done   == d.ops[Len(d.ops)]
    IN  /\ txPc = "running"
        /\ bulk.pc = "idle"
        /\ panicked => e = "nil"
        /\ (panicked \/ e # "nil") => commitErr = "nil"
        /\ txLog' = Append(txLog, ended) \o d.ops
        /\ IF done = "commit"
           THEN /\ table' = Overlay(table, txWrites)
                /\ shadow' = Overlay(shadow, txWrites)
           ELSE UNCHANGED <<table, shadow>>
        /\ txWrites' = [id \in 1..Len(table) |-> Untouched]
        /\ txPc' = IF d.repanic THEN "panicked" ELSE "returned"
        /\ ret' = IF d.repanic THEN "none" ELSE result
        /\ UNCHANGED <<repoVars, call, bulk>>

(***************************************************************************)
(* Bulk Insert Batcher: InsertBulkBase, in three kinds of step: the part   *)
(* before the loop, one iteration of the loop, the part after the loop.    *)
(* The slice elem is read as the loop reads it, one element at a time: its *)
(* length is known to the model when the range ends.                       *)
(***************************************************************************)
\* writeStmt: stmt followed by rowPerInsert groups "($a,$b,..)" of numFields
\* placeholders, numbered (i*numFields)+k+1 for the code's 0-based i and k;
\* the trailing comma is trimmed
MutWriteStmtRowLocal(rows, numFields, stmt) ==
    [stmt   |-> stmt,
     groups |-> [i \in 1..rows |-> [k \in 1..numFields |-> (k - 1) + 1]]]

writeStmt(rows, numFields, stmt) ==
    [stmt   |-> stmt,
     groups |-> [i \in 1..rows |-> [k \in 1..numFields |-> ((i - 1) * numFields) + (k - 1) + 1]]]

\* fmt.Sprintf(`INSERT INTO %s (%s) VALUES `, r.tableName, r.insertFields)
InsertPrefix == [sql |-> "INSERT", columns |-> insF]

\* columnLength: one per created_at tag, one per updated_at tag, one per writable tag
ColumnLength(t) ==
    Cardinality({i \in 1..Len(t) : createdTag(t[i].db)})
    + Cardinality({i \in 1..Len(t) : updatedTag(t[i].db)})
    + Cardinality({i \in 1..Len(t) : Writable(t[i].db)})

\* A prepared statement is kept in the state by the arguments its text was
\* written from; SqlText is the text.
Written(rows, numFields) == [rows |-> rows, numFields |-> numFields]

SqlText(w) == writeStmt(w.rows, w.numFields, InsertPrefix)

\* db.Prepare: the server parses the statement; VALUES needs a row, and every
\* row one expression per target column
Preparable(q) ==
    /\ Len(q.groups) >= 1
    /\ Len(q.stmt.columns) >= 1
    /\ \A i \in 1..Len(q.groups) : Len(q.groups[i]) = Len(q.stmt.columns)

Placeholders(q) ==
    IF Len(q.groups) = 0 THEN 0 ELSE Len(q.groups) * Len(q.groups[1])

\* query.Exec(bindValues...): the driver wants one value per placeholder
Executable(q, bindValues) == Len(bindValues) = Placeholders(q)

\* the values one element appends to bindValues: the writable fields in
\* declaration order (a row of strings has its int64 fields put through
\* StringToInt), then now for created_at, then now for updated_at.  An element
\* carries every field of the type: a row has one value per field, at the
\* field's index, as r.elemType.Field(j) takes it.
RECURSIVE ElementValues(_, _, _, _)
ElementValues(t, kind, e, j) ==
    IF j > Len(t) THEN <<>>
    ELSE (IF Writable(t[j].db)
          THEN <<[elem |-> e, col |-> t[j].db,
                  as |-> IF kind = "row" /\ t[j].int64 THEN "StringToInt" ELSE "value"]>>
          ELSE <<>>)
         \o ElementValues(t, kind, e, j + 1)

Stamps(e, createTag, updateTag) ==
    (IF createTag THEN <<[elem |-> e, col |-> "created_at", as |-> "now"]>> ELSE <<>>)
    \o (IF updateTag THEN <<[elem |-> e, col |-> "updated_at", as |-> "now"]>> ELSE <<>>)

\* the rows a successful multi-row INSERT adds
BulkRow == [val |-> "a", deleted_at |-> NULL]

InsertedRows(rows, w) == rows \o [k \in 1..w |-> BulkRow]

\* res, err := query.Exec(bindValues...); res.RowsAffected(); count += ..;
\* bindValues = nil -- on the call state b, with the statement q.
\* fail: "none", "exec" (Exec fails) or "affected" (RowsAffected fails)
ExecOk(b, q, fail) == fail # "exec" /\ Executable(SqlText(q), b.bindValues)

MutAfterExecCountsFirst(b, q, fail) ==
    LET ok == ExecOk(b, q, fail)
        w  == Len(SqlText(q).groups)
    IN  [b EXCEPT
            !.pc         = IF ok /\ fail = "none" THEN @ ELSE "done",
            !.err        = IF ~ok THEN "ErrExec"
                           ELSE IF fail = "affected" THEN "ErrAffected" ELSE "nil",
            !.count      = @ + w,
            !.bindValues = IF ok /\ fail = "none" THEN <<>> ELSE @,
            !.stmts      = IF ok THEN Append(@, [rows |-> w, binds |-> Len(b.bindValues)])
                           ELSE @,
            !.tried      = @ + 1,
            !.last       = [query |-> q, values |-> b.bindValues]]

AfterExec(b, q, fail) ==
    LET ok == ExecOk(b, q, fail)
        w  == Len(SqlText(q).groups)
    IN  [b EXCEPT
            !.pc         = IF ok /\ fail = "none" THEN @ ELSE "done",
            !.err        = IF ~ok THEN "ErrExec"
                           ELSE IF fail = "affected" THEN "ErrAffected" ELSE "nil",
            !.count      = IF ok /\ fail = "none" THEN @ + w ELSE @,
            !.bindValues = IF ok /\ fail = "none" THEN <<>> ELSE @,
            !.stmts      = IF ok THEN Append(@, [rows |-> w, binds |-> Len(b.bindValues)])
                           ELSE @,
            !.tried      = @ + 1,
            !.last       = [query |-> q, values |-> b.bindValues]]

BulkExec(b, q, fail) ==
    /\ IF ExecOk(b, q, fail)
       THEN Write(b.ctx, InsertedRows(View(Executor(b.ctx)), Len(SqlText(q).groups)),
                  InsertedRows(shadow, Len(SqlText(q).groups)))
       ELSE NoWrite
    /\ bulk' = AfterExec(b, q, fail)

\* lines 93-141: validation, routing, the column count, the full-batch statement
InsertBulkBase(api, ctx, empty, kind, most, fail) ==
    LET sqlQuery == Written(rowPerInsert, ColumnLength(elemType))
        started  == [pc |-> "loop", api |-> api, ctx |-> ctx, db |-> Executor(ctx), kind |-> kind,
                     most |-> most, i |-> 0, n |-> 0,
                     columnLength |-> ColumnLength(elemType),
                     query |-> sqlQuery, prepared |-> 1, tried |-> 0,
                     bindValues |-> <<>>, createTag |-> FALSE, updateTag |-> FALSE,
                     count |-> 0, err |-> "nil", stmts |-> <<>>,
                     last |-> [query |-> sqlQuery, values |-> <<>>]]
    IN  /\ CanCall(ctx)
        /\ Called(api, ctx, NoStmt, "nil")
        /\ bulk' = IF empty
                   THEN [started EXCEPT !.pc = "done", !.err = "ErrEmpty", !.prepared = 0,
                                        !.db = "none"]
                   ELSE IF fail = "prepare" \/ ~Preparable(SqlText(sqlQuery))
                   THEN [started EXCEPT !.pc = "done", !.err = "ErrPrepare"]
                   ELSE started
        /\ NoWrite
        /\ UNCHANGED <<repoVars, txPc, ret>>

\* lines 146-206: one iteration of `for i, column := range elem`
BulkElement(fail) ==
    LET e         == bulk.i
        createTag == bulk.createTag \/ \E j \in 1..Len(elemType) : createdTag(elemType[j].db)
        updateTag == bulk.updateTag \/ \E j \in 1..Len(elemType) : updatedTag(elemType[j].db)
        values    == bulk.bindValues \o ElementValues(elemType, bulk.kind, e, 1)
                                     \o Stamps(e, createTag, updateTag)
        b         == [bulk EXCEPT !.i = e + 1, !.bindValues = values,
                                  !.createTag = createTag, !.updateTag = updateTag]
    IN  /\ bulk.pc = "loop"
        /\ bulk.i < bulk.most
        /\ IF (e + 1) % rowPerInsert = 0
           THEN /\ fail \in {"none", "exec", "affected"}
                /\ BulkExec(b, bulk.query, fail)
           ELSE /\ fail = "none"
                /\ bulk' = b
                /\ NoWrite
        /\ UNCHANGED <<repoVars, txPc, ret, call>>

\* lines 208-231: the range has ended; the partial batch, and the return
MutBulkRemainderDropped(fail) ==
    /\ bulk.pc = "loop"
    /\ bulk.i >= 1
    /\ fail = "none"
    /\ bulk' = [bulk EXCEPT !.n = bulk.i, !.pc = "done"]
    /\ NoWrite
    /\ UNCHANGED <<repoVars, txPc, ret, call>>

BulkRemainder(fail) ==
    LET b        == [bulk EXCEPT !.n = bulk.i]
        sqlQuery == Written((Len(bulk.bindValues) \div bulk.columnLength) % rowPerInsert,
                            bulk.columnLength)
    IN  /\ bulk.pc = "loop"
        /\ bulk.i >= 1
        /\ IF Len(bulk.bindValues) > 0
           THEN IF fail = "prepare" \/ ~Preparable(SqlText(sqlQuery))
                THEN /\ bulk' = [b EXCEPT !.pc = "done", !.err = "ErrPrepare",
                                          !.prepared = @ + 1]
                     /\ NoWrite
                ELSE BulkExec([b EXCEPT !.pc = "done", !.prepared = @ + 1], sqlQuery, fail)
           ELSE /\ fail = "none"
                /\ bulk' = [b EXCEPT !.pc = "done"]
                /\ NoWrite
        /\ UNCHANGED <<repoVars, txPc, ret, call>>

BulkFails == {"none", "prepare", "exec", "affected"}

ElemKinds == {"struct", "row"}

\* InsertBulk calls InsertBulkBase; elem has as many elements as ids are left
InsertBulk(ctx, empty, kind, fail) ==
    /\ ~empty => Len(table) < MaxRows
    /\ InsertBulkBase("InsertBulk", ctx, empty, kind, MaxRows - Len(table), fail)

\* InsertBulkWithCount calls InsertBulkBase; here once, into the fresh table
InsertBulkWithCount(ctx, empty, kind, fail) ==
    /\ Len(table) = 0
    /\ InsertBulkBase("InsertBulkWithCount", ctx, empty, kind, MaxElems, fail)

\* the statement a bulk call sent last, for the call record
BulkStmt(b) ==
    IF b.prepared = 0 THEN NoStmt
    ELSE [on |-> b.db, sql |-> "INSERT", lock |-> "", executed |-> b.err = "nil" /\ b.tried > 0]

\* InsertBulk / InsertBulkWithCount return what InsertBulkBase returned
BulkReturn ==
    /\ bulk.pc = "done"
    /\ Called(bulk.api, bulk.ctx, BulkStmt(bulk), bulk.err)
    /\ bulk' = NoBulk
    /\ NoWrite
    /\ UNCHANGED <<repoVars, txPc, ret>>

Init ==
    /\ RepoBuilt(ExampleType)
    /\ DbEmpty /\ TxIdle
    /\ call = NoCall
    /\ bulk = NoBulk

Next ==
    \/ \E fail \in BOOLEAN : RunInTransactionBegin(fail)
    \/ \E panicked \in BOOLEAN, e \in FErrors, commitErr \in {"nil", "ErrCommit"} :
           RunInTransactionEnd(panicked, e, commitErr)
    \/ \E ctx \in Ctxs, where \in WherePreds, fail \in Fails : Single(ctx, where, fail)
    \/ \E ctx \in Ctxs, id \in 1..MaxRows, fail \in Fails : FindByID(ctx, id, fail)
    \/ \E ctx \in Ctxs, fail \in Fails : Where(ctx, fail)
    \/ \E ctx \in Ctxs, fail \in Fails : SelectAll(ctx, fail)
    \/ \E ctx \in Ctxs, fail \in Fails : CustomQuery(ctx, fail)
    \/ \E ctx \in Ctxs, fail \in Fails : CustomAnyQuery(ctx, fail)
    \/ \E ctx \in Ctxs, v \in Vals, fail \in Fails : Insert(ctx, v, fail)
    \/ \E ctx \in Ctxs, v \in Vals, where \in WherePreds, fail \in Fails :
           Update(ctx, v, where, fail)
    \/ \E ctx \in Ctxs, where \in WherePreds, arg \in DeleteArgs, fail \in Fails :
           Delete(ctx, where, arg, fail)
    \/ \E ctx \in Ctxs, where \in WherePreds, arg \in {"nil", "arg"}, fail \in Fails :
           PermanentDelete(ctx, where, arg, fail)
    \/ \E ctx \in Ctxs, empty \in BOOLEAN, kind \in ElemKinds, fail \in {"none", "prepare"} :
           InsertBulk(ctx, empty, kind, fail)
    \/ \E fail \in BulkFails : BulkElement(fail)
    \/ \E fail \in BulkFails : BulkRemainder(fail)
    \/ BulkReturn

Spec == Init /\ [][Next]_vars

(***************************************************************************)
(* SpecBulk: one bulk insert of up to MaxElems elements, on the pool or    *)
(* inside a transaction, for a few entity types.                           *)
(***************************************************************************)
BulkTypes ==
    {ExampleType,
     <<Field("id"), Field("name"), [db |-> "amount", int64 |-> TRUE], Field("-")>>,
     <<Field("id"), Field("deleted_at")>>}

InitBulk ==
    /\ \E t \in BulkTypes : RepoBuilt(t)
    /\ DbEmpty /\ TxIdle
    /\ call = NoCall
    /\ bulk = NoBulk

\* the caller of this specification: a bulk insert on the pool, or a unit of
\* work that makes one bulk insert with tctx and ends
NextBulk ==
    \/ \E fail \in BOOLEAN :
           /\ call.op = "none"
           /\ RunInTransactionBegin(fail)
    \/ \E panicked \in BOOLEAN, e \in FErrors, commitErr \in {"nil", "ErrCommit"} :
           /\ call.inTx
           /\ RunInTransactionEnd(panicked, e, commitErr)
    \/ \E ctx \in Ctxs, empty \in BOOLEAN, kind \in ElemKinds, fail \in {"none", "prepare"} :
           /\ ctx = "background" => txPc = "idle"
           /\ call.op = "none"
           /\ InsertBulkWithCount(ctx, empty, kind, fail)
    \/ \E fail \in BulkFails : BulkElement(fail)
    \/ \E fail \in BulkFails : BulkRemainder(fail)
    \/ BulkReturn

SpecBulk == InitBulk /\ [][NextBulk]_vars

(***************************************************************************)
(* Properties of Manager.RunInTransaction and of the repository calls,     *)
(* under Spec.                                                             *)
(***************************************************************************)
Last(q) == q[Len(q)]

Positions(q, S) == {k \in 1..Len(q) : q[k] \in S}

HandleEnds == {"commit", "commit_failed", "rollback"}

\* C1: once the transaction has begun, nothing is done with the handle while
\* the unit of work runs; when RunInTransaction is over exactly one of commit
\* and rollback was performed, after the unit of work ended: rollback when it
\* returned an error or panicked (and then the panic goes on), commit otherwise.
C1_OneCommitOrRollback ==
    /\ txPc = "running" =>
           /\ txLog[1] = "begin"
           /\ Positions(txLog, HandleEnds \cup {"f_returned", "f_panicked"}) = {}
    /\ (txPc \in {"returned", "panicked"} /\ txLog # <<>>) =>
           /\ txLog[1] = "begin"
           /\ Cardinality(Positions(txLog, HandleEnds)) = 1
           /\ Cardinality(Positions(txLog, {"f_returned", "f_panicked"})) = 1
           /\ \A k \in Positions(txLog, HandleEnds) :
                  \A e \in Positions(txLog, {"f_returned", "f_panicked"}) : e < k
           /\ Last(txLog) = "rollback" <=>
                  (Positions(txLog, {"f_panicked"}) # {} \/ ret \notin {"nil", "none"})
           /\ Positions(txLog, {"f_panicked"}) # {} <=> txPc = "panicked"

\* C1 witness: a unit of work that wrote and then panicked; the transaction
\* was rolled back and the panic went on.
C1_Witness ==
    /\ txPc = "panicked"
    /\ txLog = <<"begin", "write", "f_panicked", "rollback">>

WriteOps == {"Insert", "InsertBulk", "Update", "Delete", "PermanentDelete"}

ReadOps == {"FindByID", "Single", "Where", "SelectAll", "CustomQuery", "CustomAnyQuery"}

C3_NilOnlyIfCommitted ==
    (txPc = "returned" /\ ret = "nil") => Last(txLog) = "commit"

\* C5 (as claimed): a read with a context that carries the transaction runs on
\* the handle with the suffix FOR UPDATE; without, on the pool with no suffix.
C5_ReadsRouteAndLock ==
    (call.op \in ReadOps /\ call.stmt # NoStmt) =>
        IF call.inTx
        THEN call.stmt.on = "tx" /\ call.stmt.lock = " FOR UPDATE"
        ELSE call.stmt.on = "pool" /\ call.stmt.lock = ""

\* C6: PermanentDelete with a nil argument returns an error, and a bulk insert
\* of no element returns count 0 and an error; neither prepares or executes a
\* statement, and the rows both executors see stay as they were.
C6_ValidationBeforeSql ==
    [][/\ \A ctx \in Ctxs, where \in WherePreds, fail \in Fails :
              PermanentDelete(ctx, where, "nil", fail) =>
                  /\ call'.err # "nil"
                  /\ call'.stmt = NoStmt
                  /\ UNCHANGED <<table, txWrites>>
       /\ \A ctx \in Ctxs, kind \in ElemKinds, fail \in BulkFails :
              InsertBulk(ctx, TRUE, kind, fail) =>
                  /\ bulk'.pc = "done"
                  /\ bulk'.count = 0 /\ bulk'.err # "nil"
                  /\ bulk'.prepared = 0 /\ bulk'.tried = 0
                  /\ UNCHANGED <<table, txWrites>>
      ]_vars

\* C6 witness: PermanentDelete with a nil argument, made in a transaction that
\* sees a row, has returned its error.
C6_Witness ==
    /\ call.op = "PermanentDelete" /\ call.inTx
    /\ call.err = "ErrNoWhere" /\ call.stmt = NoStmt
    /\ Present(View("tx")) # {}

\* C8 (as claimed): a Delete that returns no error leaves as many rows as
\* there were, and every row its predicate matches has a deleted_at that is
\* not NULL afterwards.
C8_SoftDeleteStampsMatched ==
    [][\A ctx \in Ctxs, where \in WherePreds, arg \in DeleteArgs, fail \in Fails :
           (Delete(ctx, where, arg, fail) /\ call'.err = "nil") =>
               LET before == View(Executor(ctx))
                   after  == View(Executor(ctx))'
               IN  /\ Cardinality(Present(after)) = Cardinality(Present(before))
                   /\ \A id \in Matched(before, where) : after[id].deleted_at # NULL
      ]_vars

(***************************************************************************)
(* Properties of InsertBulkBase, under SpecBulk.                           *)
(***************************************************************************)
RECURSIVE SumRows(_)
SumRows(stmts) == IF stmts = <<>> THEN 0 ELSE Head(stmts).rows + SumRows(Tail(stmts))

\* C4: a bulk insert of n >= 1 elements in which nothing fails has executed
\* ceil(n / rowPerInsert) statements: floor(n / rowPerInsert) of rowPerInsert
\* rows, then one of n mod rowPerInsert rows when that is not 0, each taking
\* the elements in the order they came; its count is the sum of the rows the
\* statements affected, which is n.
C4_BatchesOfRowPerInsert ==
    (bulk.pc = "done" /\ bulk.err = "nil") =>
        LET n    == bulk.n
            full == n \div rowPerInsert
            rest == n % rowPerInsert
        IN  /\ n >= 1 /\ n = bulk.i
            /\ Len(bulk.stmts) = (n + rowPerInsert - 1) \div rowPerInsert
            /\ Len(bulk.stmts) = bulk.tried
            /\ \A k \in 1..full : bulk.stmts[k].rows = rowPerInsert
            /\ rest # 0 => Last(bulk.stmts).rows = rest
            /\ \A k \in 1..Len(bulk.stmts) :
                   bulk.stmts[k].binds = bulk.stmts[k].rows * bulk.columnLength
            /\ LET v == bulk.last.values
               IN  /\ v # <<>>
                   /\ v[1].elem = (Len(bulk.stmts) - 1) * rowPerInsert
                   /\ v[Len(v)].elem = n - 1
                   /\ \A j \in 1..(Len(v) - 1) : v[j].elem <= v[j + 1].elem
            /\ bulk.count = SumRows(bulk.stmts)
            /\ bulk.count = n

\* C4 witness: 250 elements went in three statements of 100, 100 and 50 rows.
C4_Witness ==
    /\ bulk.pc = "done" /\ bulk.err = "nil"
    /\ bulk.n = 250 /\ bulk.count = 250
    /\ Len(bulk.stmts) = 3
    /\ bulk.stmts[1].rows = 100 /\ bulk.stmts[2].rows = 100 /\ bulk.stmts[3].rows = 50

\* C7: when Prepare or Exec fails for batch k, the call ends there: the batches
\* before k are the only ones executed, nothing of a later batch was read or
\* sent, count is the sum of the rows batches 1..k-1 affected, the call returns
\* that error, and on the pool those rows are in the table.
C7_AbortsAtFirstFailure ==
    /\ [](  (bulk.pc = "done" /\ bulk.err \in {"ErrPrepare", "ErrExec"}) =>
                LET k == Len(bulk.stmts) + 1
                IN  /\ bulk.count = SumRows(bulk.stmts)
                    /\ bulk.count = (k - 1) * rowPerInsert
                    /\ bulk.i <= k * rowPerInsert
                    /\ bulk.tried \in {k - 1, k}
                    /\ bulk.db = "pool" => Cardinality(Present(table)) = bulk.count )
    /\ [][ bulk.pc = "done" =>
               /\ call'.op = bulk.api /\ call'.err = bulk.err
               /\ UNCHANGED <<table, txWrites>> ]_vars

\* C7 witness: on the pool, the third statement of a bulk insert of 250
\* elements failed; the 200 rows of the first two are in the table.
C7_Witness ==
    /\ bulk.pc = "done" /\ bulk.err = "ErrExec" /\ bulk.db = "pool"
    /\ bulk.n = 250 /\ bulk.count = 200
    /\ Len(bulk.stmts) = 2
    /\ Cardinality(Present(table)) = 200

\* the statement of the latest query.Exec of the running call, and its values
LastSql == SqlText(bulk.last.query)

LastValues == bulk.last.values

\* C11: every statement a bulk insert executes, of W rows for the C columns of
\* insertFields, has the placeholders 1..W*C, row i and column k (from 0) at
\* i*C+k+1, and is executed with W*C values: the one at i*C+k+1 is that of
\* column k of insertFields (the writable fields as declared, then the stamps
\* created_at and updated_at) of element i of the batch.  The values gathered
\* are none when a batch starts.
C11_PlaceholdersAndBindValues ==
    /\ (bulk.pc # "idle" /\ bulk.tried >= 1) =>
           LET W     == Len(LastSql.groups)
               C     == Len(insF)
               first == (bulk.tried - 1) * rowPerInsert
           IN  /\ W \in 1..rowPerInsert
               /\ LastSql.stmt.columns = insF
               /\ \A i \in 0..(W - 1) :
                      /\ Len(LastSql.groups[i + 1]) = C
                      /\ \A k \in 0..(C - 1) : LastSql.groups[i + 1][k + 1] = i * C + k + 1
               /\ Len(LastValues) = W * C
               /\ \A i \in 0..(W - 1) : \A k \in 0..(C - 1) :
                      LET bound == LastValues[i * C + k + 1]
                      IN  /\ bound.elem = first + i
                          /\ Quote(bound.col) = insF[k + 1]
                          /\ bound.as = "now" <=> Quote(bound.col) \in StampColumns
    /\ bulk.pc = "loop" =>
           /\ Len(bulk.bindValues) = (bulk.i % rowPerInsert) * Len(insF)
           /\ bulk.i % rowPerInsert = 0 => bulk.bindValues = <<>>
           /\ \A j \in 1..Len(bulk.bindValues) :
                  bulk.bindValues[j].elem >= bulk.i - (bulk.i % rowPerInsert)

\* C11 witness: two elements of a type with three insert columns went in one
\* statement: row 0 at $1,$2,$3 and row 1 at $4,$5,$6, the first value of
\* row 1 the name of element 1.
C11_Witness ==
    /\ bulk.pc = "done" /\ bulk.err = "nil" /\ bulk.n = 2
    /\ LastSql.groups = <<<<1, 2, 3>>, <<4, 5, 6>>>>
    /\ Len(LastValues) = 6
    /\ LastValues[4] = [elem |-> 1, col |-> "name", as |-> "value"]
    /\ LastValues[6] = [elem |-> 1, col |-> "updated_at", as |-> "now"]

====
